---------------------------- MODULE Spec2Model ----------------------------
(* Workflow state machine of maw-mcp: the persisted WORKFLOW_STATE.json,  *)
(* the AGENT_PROMPTS/ task files and the tool handlers that read and      *)
(* write them (src/src/state.py, src/src/server.py).                      *)
EXTENDS Integers, Sequences, FiniteSets, TLC

(* ---------------------------------------------------------------- *)
(* Bounds                                                            *)
(* ---------------------------------------------------------------- *)
\* timestamps are 0..MaxClock
MaxClock == 1
\* task files are N_<name>.md with numeric prefix N in 0..MaxNum
MaxNum == 1
\* <name> is one of MaxName names, identified by lexicographic rank
MaxName == 1

Times == 0..MaxClock
TaskNums == 0..MaxNum
TaskNames == 1..MaxName
\* a task file "N_<name>.md" is the pair <<N, rank of name>>
TaskFileNames == TaskNums \X TaskNames

\* args.get("agent_id") is None when the argument is absent
NoAgent == -1
AgentIds == {NoAgent} \cup 0..(MaxNum + 1)
\* wave_name argument: "" when absent
WaveNames == {"", "w"}
\* what running gh can end in: the four failures, or a list of pull requests
\* without or with agent branches
GhFailures == {"not_installed", "timeout", "nonzero_exit", "malformed_json"}
GhOutcomes == GhFailures \cup {"no_prs", "prs"}
\* the server processes that can serve one project at the same time
Servers == {1, 2}
\* the operation took no agent_id and no wave_name and did not call gh
NoInput == [agent_id |-> NoAgent, gh |-> "unused", wave_name |-> ""]

VARIABLES
    fileState,    \* WORKFLOW_STATE.json: "missing", "ok" or "corrupt"
    st,           \* the WorkflowState stored in the file when fileState = "ok"
    readme,       \* MAW_README.md exists
    promptsDir,   \* AGENT_PROMPTS/ exists
    taskFiles,    \* the [0-9]_*.md files in AGENT_PROMPTS/
    clock,        \* datetime.now(UTC) at the last read of the time
    lastOp,       \* the last operation or event
    result,       \* which answer the last operation returned
    returned,     \* the task files named in the answer of the last launch
    repeated,     \* the last operation gave the same answer as the one before
    served,       \* tasks returned by sequential launches since the cursor
                  \* was 0, emptied when the task files or the cursor are reset
    asked,        \* what the last operation was given: the agent_id of a
                  \* parallel launch, the outcome of its call of gh and the
                  \* wave_name of a review
    running,      \* the launches that loaded the state and did not return
                  \* yet, when several server processes serve one project
    call          \* the last call of a function of github.py or of the merge
                  \* plan: its name, its argument and its return value

vars == <<fileState, st, readme, promptsDir, taskFiles, clock, lastOp,
          result, returned, repeated, served, asked, running, call>>

(* ---------------------------------------------------------------- *)
(* state.py                                                          *)
(* ---------------------------------------------------------------- *)
\* wave: Optional[WaveInfo], None is the empty sequence
NoWave == <<>>

WaveInfo(number, name) ==
    <<[number |-> number, name |-> name, agents |-> <<>>,
       status |-> "not_started"]>>

\* Optional[int] fields: None
None == -1

AgentInfo(id, role, slug) ==
    [id |-> id, role |-> role, slug |-> slug,
     branch |-> <<"agent", id, slug>>, status |-> "not_started",
     started_at |-> None, completed_at |-> None, pr_number |-> None,
     wave |-> 1]

Empty(now) ==
    [phase |-> "idle", iteration |-> 0, status |-> "not_started",
     review_complete |-> FALSE, mode |-> "parallel",
     current_task_index |-> 0, wave |-> NoWave, agents |-> <<>>,
     history |-> <<>>, created_at |-> now, last_updated |-> now]

\* content of st while no readable state is stored
NoState == Empty(0)

\* variant: an unreadable file is taken for a reviewed workflow
load_state_reviewed(now) ==
    IF fileState = "ok" THEN st
    ELSE [Empty(now) EXCEPT !.review_complete = TRUE]

load_state(now) == IF fileState = "ok" THEN st ELSE Empty(now)

\* variant: the state is written with the last_updated it was loaded with
save_state_stale(state, now) ==
    /\ st' = state
    /\ fileState' = "ok"

save_state(state, now) ==
    /\ st' = [state EXCEPT !.last_updated = now]
    /\ fileState' = "ok"

(* ---------------------------------------------------------------- *)
(* server.py helpers                                                 *)
(* ---------------------------------------------------------------- *)
\* variant: MAW_README.md is left out of required_files
check_maw_setup_stateOnly == fileState # "missing"

check_maw_setup == fileState # "missing" /\ readme

\* the times datetime.now() can return in a call made at time t
Later(t) == t..(IF t + 1 < MaxClock THEN t + 1 ELSE MaxClock)

\* variant: the files are sorted in descending order
PathLess_desc(a, b) == a[1] > b[1] \/ (a[1] = b[1] /\ a[2] > b[2])

\* file names compare by numeric prefix, then by the rest of the name
PathLess(a, b) == a[1] < b[1] \/ (a[1] = b[1] /\ a[2] < b[2])

RECURSIVE sorted(_)
sorted(S) ==
    IF S = {} THEN <<>>
    ELSE LET m == CHOOSE x \in S : \A y \in S \ {x} : PathLess(x, y)
         IN  <<m>> \o sorted(S \ {m})

\* prompts_dir.glob("[0-9]_*.md"), sorted
prompt_files == sorted(taskFiles)

\* int(pf.name.split("_")[0])
agent_num(pf) == pf[1]

Reply(op, res, tasks, input) ==
    /\ lastOp' = op
    /\ result' = res
    /\ returned' = tasks
    /\ repeated' = (lastOp = op /\ result = res)
    /\ asked' = input
    /\ UNCHANGED <<running, call>>

Answer(op, res, tasks) == Reply(op, res, tasks, NoInput)

\* a server process that is not inside handle_launch
Waiting == [pc |-> "waiting", state |-> NoState, task |-> <<>>, after |-> {}]

\* run_gh and get_open_prs return (False, message) for every failure
GatewayResult(outcome) ==
    IF outcome \in GhFailures THEN "gh_failed" ELSE outcome

\* no function has been called yet with argument x
NotCalled(x) == [fn |-> "none", input |-> x, output |-> <<>>]

Init ==
    /\ fileState = "missing"
    /\ st = NoState
    /\ readme \in BOOLEAN
    /\ promptsDir = FALSE
    /\ taskFiles = {}
    /\ clock = 0
    /\ lastOp = "none"
    /\ result = "none"
    /\ returned = <<>>
    /\ repeated = FALSE
    /\ served = <<>>
    /\ asked = NoInput
    /\ running = [p \in Servers |-> Waiting]
    /\ call = NotCalled(<<>>)

(* ---------------------------------------------------------------- *)
(* handle_setup                                                      *)
(* ---------------------------------------------------------------- *)
\* variant: setup writes a new empty state whether the file exists or not
handle_setup_overwrites ==
    \E now \in Later(clock) :
        /\ readme' = TRUE
        /\ save_state(Empty(clock), now)
        /\ promptsDir' = TRUE
        /\ clock' = now
        /\ Answer("setup", "setup_done", <<>>)
        /\ UNCHANGED <<taskFiles, served>>

handle_setup ==
    \E now \in Later(clock) :
        /\ readme' = TRUE
        /\ IF fileState = "missing"
           THEN save_state(Empty(clock), now)
           ELSE UNCHANGED <<st, fileState>>
        /\ promptsDir' = TRUE
        /\ clock' = now
        /\ Answer("setup", "setup_done", <<>>)
        /\ UNCHANGED <<taskFiles, served>>

(* ---------------------------------------------------------------- *)
(* handle_status                                                     *)
(* ---------------------------------------------------------------- *)
\* variant: status writes back the state it loaded
handle_status_saves ==
    /\ Answer("status", "status", <<>>)
    /\ save_state(load_state(clock), clock)
    /\ UNCHANGED <<readme, promptsDir, taskFiles, clock, served>>

handle_status ==
    /\ Answer("status", "status", <<>>)
    /\ UNCHANGED <<fileState, st, readme, promptsDir, taskFiles, clock,
                   served>>

(* ---------------------------------------------------------------- *)
(* handle_review                                                     *)
(* ---------------------------------------------------------------- *)
\* variant: a review withdraws an earlier review_complete
ReviewUpdate_resets(state, wave_name) ==
    [state EXCEPT !.phase = "review",
                  !.status = "reviewing",
                  !.review_complete = FALSE,
                  !.wave = IF wave_name # ""
                           THEN WaveInfo(state.iteration + 1, wave_name)
                           ELSE @]

\* variant: the review starts the task list over
ReviewUpdate_rewinds(state, wave_name) ==
    [state EXCEPT !.phase = "review",
                  !.status = "reviewing",
                  !.current_task_index = 0,
                  !.wave = IF wave_name # ""
                           THEN WaveInfo(state.iteration + 1, wave_name)
                           ELSE @]

\* variant: the review marks itself complete
ReviewUpdate_completes(state, wave_name) ==
    [state EXCEPT !.phase = "review",
                  !.status = "reviewing",
                  !.review_complete = TRUE,
                  !.wave = IF wave_name # ""
                           THEN WaveInfo(state.iteration + 1, wave_name)
                           ELSE @]

ReviewUpdate(state, wave_name) ==
    [state EXCEPT !.phase = "review",
                  !.status = "reviewing",
                  !.wave = IF wave_name # ""
                           THEN WaveInfo(state.iteration + 1, wave_name)
                           ELSE @]

handle_review(wave_name) ==
    \E now \in Later(clock) :
        IF ~check_maw_setup
        THEN /\ clock' = clock
             /\ Answer("review", "setup_incomplete", <<>>)
             /\ UNCHANGED <<fileState, st, readme, promptsDir, taskFiles, served>>
        ELSE /\ promptsDir' = TRUE
             /\ save_state(ReviewUpdate(load_state(clock), wave_name), now)
             /\ clock' = now
             /\ Reply("review", "analysis_prompt", <<>>,
                      [NoInput EXCEPT !.wave_name = wave_name])
             /\ UNCHANGED <<readme, taskFiles, served>>

\* handle_review is stopped inside state_file.write_text, or the write fails
\* part-way: the file was opened for writing, which empties it, and holds at
\* most the first part of the JSON text
handle_review_interrupted ==
    /\ check_maw_setup
    /\ promptsDir' = TRUE
    /\ fileState' = "corrupt"
    /\ st' = NoState
    /\ Answer("review_interrupted", "none", <<>>)
    /\ served' = <<>>
    /\ UNCHANGED <<readme, taskFiles, clock>>

(* ---------------------------------------------------------------- *)
(* handle_launch                                                     *)
(* ---------------------------------------------------------------- *)
\* variant: the review_complete check is left out
LaunchAllowed_always(state) == TRUE

\* "if not state.review_complete: return ..." lets the launch go on when
LaunchAllowed(state) == state.review_complete

\* variant: the check for task files is left out
NoPromptFiles_never(files) == FALSE

\* "if not prompt_files: return ..."
NoPromptFiles(files) == files = <<>>

SequentialMode(state) == [state EXCEPT !.mode = "sequential"]

AllTasksDone(state, total_tasks) == state.current_task_index >= total_tasks

\* variant: the last task is returned whatever the cursor says
CurrentFile_last(files, state) == files[Len(files)]

\* prompt_files[state.current_task_index], Python lists count from 0
CurrentFile(files, state) == files[state.current_task_index + 1]

\* variant: the cursor skips a task
SequentialUpdate_skip(state) ==
    [state EXCEPT !.current_task_index = @ + 2,
                  !.phase = "launch",
                  !.status = "launching"]

SequentialUpdate(state) ==
    [state EXCEPT !.current_task_index = @ + 1,
                  !.phase = "launch",
                  !.status = "launching"]

\* variant: a parallel launch moves the cursor
ParallelUpdate_advance(state) ==
    [state EXCEPT !.mode = "parallel",
                  !.current_task_index = @ + 1,
                  !.phase = "launch",
                  !.status = "launching"]

\* variant: "state.mode = 'parallel'" is left out
ParallelUpdate_keepsMode(state) ==
    [state EXCEPT !.phase = "launch",
                  !.status = "launching"]

\* variant: "state.status = 'launching'" is left out
ParallelUpdate_phaseOnly(state) ==
    [state EXCEPT !.mode = "parallel",
                  !.phase = "launch"]

ParallelUpdate(state) ==
    [state EXCEPT !.mode = "parallel",
                  !.phase = "launch",
                  !.status = "launching"]

\* "if agent_id and agent_num != agent_id: continue"
Skipped(pf, agent_id) ==
    (agent_id # NoAgent /\ agent_id # 0) /\ agent_num(pf) # agent_id

RECURSIVE LaunchList(_, _)
LaunchList(files, agent_id) ==
    IF files = <<>> THEN <<>>
    ELSE (IF Skipped(Head(files), agent_id) THEN <<>> ELSE <<Head(files)>>)
         \o LaunchList(Tail(files), agent_id)

handle_launch(next_only, agent_id) ==
    \E now \in Later(clock) :
        LET state == load_state(clock)
            Refuse(res) ==
                /\ clock' = clock
                /\ Answer("launch", res, <<>>)
                /\ UNCHANGED <<fileState, st, readme, promptsDir, taskFiles, served>>
        IN
        IF ~check_maw_setup THEN Refuse("setup_incomplete")
        ELSE IF ~LaunchAllowed(state) THEN Refuse("review_not_complete")
        ELSE IF ~promptsDir THEN Refuse("no_prompts_dir")
        ELSE IF NoPromptFiles(prompt_files) THEN Refuse("no_prompt_files")
        ELSE IF next_only
        THEN LET seq == SequentialMode(state)
                 total_tasks == Len(prompt_files)
             IN  IF AllTasksDone(seq, total_tasks)
                 THEN Refuse("all_complete")
                 ELSE LET current_file == CurrentFile(prompt_files, seq)
                      IN  /\ save_state(SequentialUpdate(seq), now)
                          /\ clock' = now
                          /\ Answer("launch", "next_task", <<current_file>>)
                          /\ served' =
                                 IF seq.current_task_index = 0
                                 THEN <<current_file>>
                                 ELSE IF served = <<>> THEN <<>>
                                 ELSE Append(served, current_file)
                          /\ UNCHANGED <<readme, promptsDir, taskFiles>>
        ELSE /\ save_state(ParallelUpdate(state), now)
             /\ clock' = now
             /\ Reply("launch", "launch_sequence",
                      LaunchList(prompt_files, agent_id),
                      [NoInput EXCEPT !.agent_id = agent_id])
             /\ UNCHANGED <<readme, promptsDir, taskFiles, served>>

(* ---------------------------------------------------------------- *)
(* handle_checkin                                                    *)
(* ---------------------------------------------------------------- *)
\* reports: the pasted text is given or not; gh: outcome of get_agent_prs;
\* branches: get_local_branches finds agent/ branches
CheckinAnswer(reports, auto, gh, branches) ==
    IF ~reports /\ auto
    THEN IF gh = "prs" THEN "pr_dashboard"
         ELSE IF gh = "no_prs"
              THEN (IF branches THEN "local_branches" ELSE "nothing_found")
              ELSE "gh_fallback"
    ELSE IF ~reports THEN "paste_reports" ELSE "report_dashboard"

\* variant: a check-in that finds the agents' reports moves the workflow on
handle_checkin_advances(reports, auto, gh, branches) ==
    /\ Answer("checkin",
              IF ~check_maw_setup THEN "setup_incomplete"
              ELSE CheckinAnswer(reports, auto, gh, branches), <<>>)
    /\ IF check_maw_setup /\ reports
       THEN save_state([load_state(clock) EXCEPT !.phase = "integrate",
                                                 !.status = "integrating"],
                       clock)
       ELSE UNCHANGED <<fileState, st>>
    /\ UNCHANGED <<readme, promptsDir, taskFiles, clock, served>>

handle_checkin(reports, auto, gh, branches) ==
    /\ Reply("checkin",
             IF ~check_maw_setup THEN "setup_incomplete"
             ELSE CheckinAnswer(reports, auto, gh, branches), <<>>,
             IF check_maw_setup /\ ~reports /\ auto
             THEN [NoInput EXCEPT !.gh = gh] ELSE NoInput)
    /\ UNCHANGED <<fileState, st, readme, promptsDir, taskFiles, clock,
                   served>>

(* ---------------------------------------------------------------- *)
(* handle_integrate                                                  *)
(* ---------------------------------------------------------------- *)
\* variant: integrate returns the workflow to idle
IntegrateUpdate_toIdle(state) ==
    [state EXCEPT !.phase = "idle", !.status = "integrating"]

\* variant: integrate starts a new iteration
IntegrateUpdate_bump(state) ==
    [state EXCEPT !.phase = "integrate", !.status = "integrating",
                  !.iteration = @ + 1]

\* variant: integrate forgets the recorded pull requests
IntegrateUpdate_dropsPr(state) ==
    [state EXCEPT !.phase = "integrate", !.status = "integrating",
                  !.agents = [i \in DOMAIN @ |-> [@[i] EXCEPT !.pr_number = None]]]

IntegrateUpdate(state) ==
    [state EXCEPT !.phase = "integrate", !.status = "integrating"]

\* where agents_info comes from: the PRs, else the task files
IntegrateSource(gh) ==
    IF gh = "prs" THEN "from_prs"
    ELSE IF promptsDir THEN "from_prompts" ELSE "from_nothing"

\* variant: integrate gives up when gh fails
handle_integrate_fatal(gh) ==
    \E now \in Later(clock) :
        IF ~check_maw_setup \/ gh = "gh_failed"
        THEN /\ clock' = clock
             /\ Reply("integrate",
                      IF ~check_maw_setup THEN "setup_incomplete"
                      ELSE "gateway_error", <<>>,
                      IF ~check_maw_setup THEN NoInput
                      ELSE [NoInput EXCEPT !.gh = gh])
             /\ UNCHANGED <<fileState, st, readme, promptsDir, taskFiles, served>>
        ELSE /\ save_state(IntegrateUpdate(load_state(clock)), now)
             /\ clock' = now
             /\ Reply("integrate", IntegrateSource(gh), <<>>,
                      [NoInput EXCEPT !.gh = gh])
             /\ UNCHANGED <<readme, promptsDir, taskFiles, served>>

handle_integrate(gh) ==
    \E now \in Later(clock) :
        IF ~check_maw_setup
        THEN /\ clock' = clock
             /\ Answer("integrate", "setup_incomplete", <<>>)
             /\ UNCHANGED <<fileState, st, readme, promptsDir, taskFiles, served>>
        ELSE /\ save_state(IntegrateUpdate(load_state(clock)), now)
             /\ clock' = now
             /\ Reply("integrate", IntegrateSource(gh), <<>>,
                      [NoInput EXCEPT !.gh = gh])
             /\ UNCHANGED <<readme, promptsDir, taskFiles, served>>

(* ---------------------------------------------------------------- *)
(* handle_decide                                                     *)
(* ---------------------------------------------------------------- *)
\* variant: decide starts the next iteration itself
handle_decide_iterates ==
    /\ Answer("decide",
              IF ~check_maw_setup THEN "setup_incomplete"
              ELSE "decision_framework", <<>>)
    /\ IF check_maw_setup
       THEN save_state([load_state(clock) EXCEPT !.iteration = @ + 1], clock)
       ELSE UNCHANGED <<fileState, st>>
    /\ UNCHANGED <<readme, promptsDir, taskFiles, clock, served>>

handle_decide ==
    /\ Answer("decide",
              IF ~check_maw_setup THEN "setup_incomplete"
              ELSE "decision_framework", <<>>)
    /\ UNCHANGED <<fileState, st, readme, promptsDir, taskFiles, clock,
                   served>>

(* ---------------------------------------------------------------- *)
(* handle_learn                                                      *)
(* ---------------------------------------------------------------- *)
\* learning: the learning argument is given. The entry is appended to
\* PROJECT_LEARNINGS.md (and to UNIVERSAL_PATTERNS.md of the server), files
\* that no handler reads back; WORKFLOW_STATE.json is neither loaded nor saved
handle_learn(learning) ==
    /\ Answer("learn",
              IF ~check_maw_setup THEN "setup_incomplete"
              ELSE IF ~learning THEN "learn_prompt" ELSE "learning_added",
              <<>>)
    /\ UNCHANGED <<fileState, st, readme, promptsDir, taskFiles, clock,
                   served>>

(* ---------------------------------------------------------------- *)
(* handle_clean                                                      *)
(* ---------------------------------------------------------------- *)
\* variant: clean resets phase and iteration of the loaded state only
CleanState_keepsRest(now) ==
    [load_state(now) EXCEPT !.phase = "idle", !.status = "not_started",
                            !.iteration = 0]

\* WorkflowState.empty(path) followed by state.iteration = 0
CleanState(now) == [Empty(now) EXCEPT !.iteration = 0]

handle_clean ==
    \E now \in Later(clock) :
        IF ~check_maw_setup
        THEN /\ clock' = clock
             /\ Answer("clean", "setup_incomplete", <<>>)
             /\ UNCHANGED <<fileState, st, readme, promptsDir, taskFiles, served>>
        ELSE /\ taskFiles' = IF promptsDir THEN {} ELSE taskFiles
             /\ save_state(CleanState(clock), now)
             /\ clock' = now
             /\ Answer("clean", "cleaned", <<>>)
             /\ served' = <<>>
             /\ UNCHANGED <<readme, promptsDir>>

(* ---------------------------------------------------------------- *)
(* What the caller does between tool calls                           *)
(* ---------------------------------------------------------------- *)
\* the reviewing agent writes a task file N_<name>.md into AGENT_PROMPTS/
WriteTaskFile(f) ==
    /\ promptsDir
    /\ f \notin taskFiles
    /\ taskFiles' = taskFiles \cup {f}
    /\ Answer("write_task", "none", <<>>)
    /\ served' = <<>>
    /\ UNCHANGED <<fileState, st, readme, promptsDir, clock>>

\* the reviewing agent sets review_complete in WORKFLOW_STATE.json
MarkReviewComplete ==
    /\ fileState = "ok"
    /\ st' = [st EXCEPT !.review_complete = TRUE]
    /\ Answer("mark_review_complete", "none", <<>>)
    /\ UNCHANGED <<fileState, readme, promptsDir, taskFiles, clock, served>>

\* the agents array the reviewing agent adds to WORKFLOW_STATE.json
ReviewedAgents ==
    <<AgentInfo(1, "Docs", "docs"), AgentInfo(2, "Api", "api")>>

\* the same agents, with the pull request of the first one recorded
AgentsWithPr == [ReviewedAgents EXCEPT ![1].pr_number = 1]

AddAgents ==
    /\ fileState = "ok"
    /\ st.agents = <<>>
    /\ \E agents \in {ReviewedAgents, AgentsWithPr} :
          st' = [st EXCEPT !.agents = agents]
    /\ Answer("add_agents", "none", <<>>)
    /\ UNCHANGED <<fileState, readme, promptsDir, taskFiles, clock, served>>

\* MAW_README.md is deleted
RemoveReadme ==
    /\ readme
    /\ readme' = FALSE
    /\ Answer("remove_readme", "none", <<>>)
    /\ UNCHANGED <<fileState, st, promptsDir, taskFiles, clock, served>>

\* WORKFLOW_STATE.json stops being parseable as a WorkflowState
CorruptStateFile ==
    /\ fileState = "ok"
    /\ fileState' = "corrupt"
    /\ st' = NoState
    /\ Answer("corrupt_state", "none", <<>>)
    /\ served' = <<>>
    /\ UNCHANGED <<readme, promptsDir, taskFiles, clock>>

\* the empty AGENT_PROMPTS/ directory is removed
RemovePromptsDir ==
    /\ promptsDir
    /\ taskFiles = {}
    /\ promptsDir' = FALSE
    /\ Answer("remove_prompts_dir", "none", <<>>)
    /\ UNCHANGED <<fileState, st, readme, taskFiles, clock, served>>

\* a sequential launch does not read agent_id; a check-in runs gh only when
\* it has no reports and auto is set, and lists the local branches only when
\* gh found no pull request
Next ==
    \/ handle_setup
    \/ handle_status
    \/ \E w \in WaveNames : handle_review(w)
    \/ handle_review_interrupted
    \/ \E n \in BOOLEAN :
          \E a \in (IF n THEN {NoAgent} ELSE AgentIds) : handle_launch(n, a)
    \/ \E r \in BOOLEAN, au \in BOOLEAN :
          \E gh \in (IF ~r /\ au THEN GhOutcomes ELSE {"no_prs"}) :
             \E b \in (IF ~r /\ au /\ gh = "no_prs" THEN BOOLEAN ELSE {FALSE}) :
                handle_checkin(r, au, GatewayResult(gh), b)
    \/ \E gh \in GhOutcomes : handle_integrate(GatewayResult(gh))
    \/ handle_decide
    \/ \E l \in BOOLEAN : handle_learn(l)
    \/ handle_clean
    \/ \E f \in TaskFileNames : WriteTaskFile(f)
    \/ MarkReviewComplete
    \/ AddAgents
    \/ RemoveReadme
    \/ CorruptStateFile
    \/ RemovePromptsDir

Spec == Init /\ [][Next]_vars

(* ---------------------------------------------------------------- *)
(* The tools alone, on a project that was just set up                *)
(* ---------------------------------------------------------------- *)
\* the project after its first maw_setup at time t: WORKFLOW_STATE.json holds
\* the empty state; AGENT_PROMPTS/ exists and holds the task files that were
\* in it before the setup, if any
InitTools ==
    /\ fileState = "ok"
    /\ readme = TRUE
    /\ promptsDir = TRUE
    /\ taskFiles \in SUBSET TaskFileNames
    /\ clock \in Times
    /\ \E t \in 0..clock : st = [Empty(t) EXCEPT !.last_updated = clock]
    /\ lastOp = "setup"
    /\ result = "setup_done"
    /\ returned = <<>>
    /\ repeated = FALSE
    /\ served = <<>>
    /\ asked = NoInput
    /\ running = [p \in Servers |-> Waiting]
    /\ call = NotCalled(<<>>)

\* the handlers of call_tool that work on the project
NextTools ==
    \/ handle_setup
    \/ handle_status
    \/ \E w \in WaveNames : handle_review(w)
    \/ \E n \in BOOLEAN :
          \E a \in (IF n THEN {NoAgent} ELSE AgentIds) : handle_launch(n, a)
    \/ \E r \in BOOLEAN, au \in BOOLEAN :
          \E gh \in (IF ~r /\ au THEN GhOutcomes ELSE {"no_prs"}) :
             \E b \in (IF ~r /\ au /\ gh = "no_prs" THEN BOOLEAN ELSE {FALSE}) :
                handle_checkin(r, au, GatewayResult(gh), b)
    \/ \E gh \in GhOutcomes : handle_integrate(GatewayResult(gh))
    \/ handle_decide
    \/ \E l \in BOOLEAN : handle_learn(l)
    \/ handle_clean

SpecTools == InitTools /\ [][NextTools]_vars

(* ---------------------------------------------------------------- *)
(* The tools and a caller who starts new iterations                  *)
(* ---------------------------------------------------------------- *)
\* the caller edits iteration in WORKFLOW_STATE.json at most this often
MaxIteration == 1

\* "If iterating: iteration += 1, run maw_review": the caller follows the
\* answer of maw_decide and edits WORKFLOW_STATE.json
StartIteration ==
    /\ fileState = "ok"
    /\ st.iteration < MaxIteration
    /\ st' = [st EXCEPT !.iteration = @ + 1]
    /\ Answer("start_iteration", "none", <<>>)
    /\ UNCHANGED <<fileState, readme, promptsDir, taskFiles, clock, served>>

NextIter ==
    \/ NextTools
    \/ \E f \in TaskFileNames : WriteTaskFile(f)
    \/ MarkReviewComplete
    \/ StartIteration

SpecIter == InitTools /\ [][NextIter]_vars

(* ---------------------------------------------------------------- *)
(* handle_launch in two server processes on one project              *)
(* ---------------------------------------------------------------- *)
\* a reviewed workflow with task files, as maw_launch finds it
InitRace ==
    /\ fileState = "ok"
    /\ readme = TRUE
    /\ promptsDir = TRUE
    /\ taskFiles \in (SUBSET TaskFileNames) \ {{}}
    /\ clock \in Times
    /\ \E mode \in {"parallel", "sequential"},
          index \in 0..Cardinality(taskFiles), wave \in {NoWave, WaveInfo(1, "w")} :
          st = [Empty(0) EXCEPT !.phase = "review", !.status = "reviewing",
                                !.review_complete = TRUE, !.mode = mode,
                                !.current_task_index = index, !.wave = wave,
                                !.last_updated = clock]
    /\ lastOp = "none"
    /\ result = "none"
    /\ returned = <<>>
    /\ repeated = FALSE
    /\ served = <<>>
    /\ asked = NoInput
    /\ running = [p \in Servers |-> Waiting]
    /\ call = NotCalled(<<>>)

\* the servers that have returned from their launch
Returned == {q \in Servers : running[q].pc = "returned"}

\* server p runs a sequential launch up to the point where the task to
\* return is known; the checks before it pass in a reviewed workflow
LaunchLoad(p) ==
    /\ running[p].pc = "waiting"
    /\ check_maw_setup
    /\ LaunchAllowed(load_state(clock))
    /\ promptsDir /\ ~NoPromptFiles(prompt_files)
    /\ LET seq == SequentialMode(load_state(clock))
       IN  running' = [running EXCEPT ![p] =
               IF AllTasksDone(seq, Len(prompt_files))
               THEN [pc |-> "returned", state |-> seq, task |-> <<>>,
                     after |-> Returned]
               ELSE [pc |-> "loaded", state |-> seq,
                     task |-> <<CurrentFile(prompt_files, seq)>>,
                     after |-> Returned]]
    /\ UNCHANGED <<fileState, st, readme, promptsDir, taskFiles, clock, lastOp,
                   result, returned, repeated, served, asked, call>>

\* server p advances the cursor of the state it loaded, saves and returns
LaunchSave(p) ==
    \E now \in Later(clock) :
        /\ running[p].pc = "loaded"
        /\ save_state(SequentialUpdate(running[p].state), now)
        /\ clock' = now
        /\ running' = [running EXCEPT ![p].pc = "returned"]
        /\ lastOp' = "launch"
        /\ result' = "next_task"
        /\ returned' = running[p].task
        /\ repeated' = (lastOp = "launch" /\ result = "next_task")
        /\ UNCHANGED <<readme, promptsDir, taskFiles, served, asked, call>>

NextRace == \E p \in Servers : LaunchLoad(p) \/ LaunchSave(p)

SpecRace == InitRace /\ [][NextRace]_vars

(* ---------------------------------------------------------------- *)
(* github.py: detect_conflicts                                       *)
(* ---------------------------------------------------------------- *)
\* the variables of the workflow, which the functions below do not touch
workflow == <<fileState, st, readme, promptsDir, taskFiles, clock, lastOp,
              result, returned, repeated, served, asked, running>>

\* no tool was called and nothing is on disk
NoWorkflow ==
    /\ fileState = "missing"
    /\ st = NoState
    /\ readme = TRUE
    /\ promptsDir = FALSE
    /\ taskFiles = {}
    /\ clock = 0
    /\ lastOp = "none"
    /\ result = "none"
    /\ returned = <<>>
    /\ repeated = FALSE
    /\ served = <<>>
    /\ asked = NoInput
    /\ running = [p \in Servers |-> Waiting]

\* a list of open pull requests has at most MaxPrs entries
MaxPrs == 3
PrNumbers == 1..MaxPrs
\* the paths a pull request can touch
Paths == {"a.md", "b.py"}

\* the lists over S that name no element twice
Arrangements(S) ==
    {s \in UNION {[1..n -> S] : n \in 0..Cardinality(S)} :
        \A i, j \in DOMAIN s : i # j => s[i] # s[j]}

\* "gh pr list --json number,...,files": each pull request has its own
\* number and lists each changed path once
PullRequests == [number : PrNumbers, files : Arrangements(Paths)]
PrLists ==
    {prs \in UNION {[1..n -> PullRequests] : n \in 0..MaxPrs} :
        \A i, j \in DOMAIN prs : i # j => prs[i].number # prs[j].number}

\* variant: a path met for the first time is put in front of the others
Record_front(file_to_prs, path, n) ==
    IF \E i \in DOMAIN file_to_prs : file_to_prs[i].file = path
    THEN [i \in DOMAIN file_to_prs |->
            IF file_to_prs[i].file = path
            THEN [file_to_prs[i] EXCEPT !.prs = Append(@, n)]
            ELSE file_to_prs[i]]
    ELSE <<[file |-> path, prs |-> <<n>>]>> \o file_to_prs

\* file_to_prs after "file_to_prs[path].append(pr.get("number"))"; the dict
\* keeps its keys in insertion order
Record(file_to_prs, path, n) ==
    IF \E i \in DOMAIN file_to_prs : file_to_prs[i].file = path
    THEN [i \in DOMAIN file_to_prs |->
            IF file_to_prs[i].file = path
            THEN [file_to_prs[i] EXCEPT !.prs = Append(@, n)]
            ELSE file_to_prs[i]]
    ELSE Append(file_to_prs, [file |-> path, prs |-> <<n>>])

\* the inner loop "for f in files"
RECURSIVE RecordFiles(_, _, _)
RecordFiles(file_to_prs, files, n) ==
    IF files = <<>> THEN file_to_prs
    ELSE RecordFiles(Record(file_to_prs, Head(files), n), Tail(files), n)

\* the outer loop "for pr in prs"
RECURSIVE FileToPrs(_)
FileToPrs(prs) ==
    IF prs = <<>> THEN <<>>
    ELSE LET pr == prs[Len(prs)]
         IN  RecordFiles(FileToPrs(SubSeq(prs, 1, Len(prs) - 1)),
                         pr.files, pr.number)

\* variant: only a path of three or more pull requests is a conflict
IsConflict_three(pr_numbers) == Len(pr_numbers) > 2

\* variant: every recorded path is a conflict
IsConflict_any(pr_numbers) == Len(pr_numbers) >= 1

\* "if len(pr_numbers) > 1"
IsConflict(pr_numbers) == Len(pr_numbers) > 1

detect_conflicts(prs) ==
    SelectSeq(FileToPrs(prs), LAMBDA e : IsConflict(e.prs))

InitConflicts ==
    /\ NoWorkflow
    /\ call \in {NotCalled(prs) : prs \in PrLists}

CallDetectConflicts ==
    /\ call.fn = "none"
    /\ call' = [fn |-> "detect_conflicts", input |-> call.input,
                output |-> detect_conflicts(call.input)]
    /\ UNCHANGED workflow

NextConflicts == CallDetectConflicts

SpecConflicts == InitConflicts /\ [][NextConflicts]_vars

(* ---------------------------------------------------------------- *)
(* github.py: get_agent_prs                                          *)
(* ---------------------------------------------------------------- *)
\* a branch name is "agent/" followed by at most MaxTail characters, or one
\* of OtherBranches; a string is the sequence of its characters
MaxTail == 3
\* get_agent_prs is applied to lists of at most MaxBranches pull requests
MaxBranches == 2

Chars == {"1", "2", "-", "/", "x"}
Digits == {"0", "1", "2", "3", "4", "5", "6", "7", "8", "9"}
AgentPrefix == <<"a", "g", "e", "n", "t", "/">>
OtherBranches == {<<"m", "a", "i", "n">>, <<"f", "i", "x", "/", "1", "-", "x">>}

\* git refuses a ref name with an empty component
IsRefName(s) ==
    /\ s # <<>>
    /\ s[1] # "/" /\ s[Len(s)] # "/"
    /\ \A i \in 1..(Len(s) - 1) : ~(s[i] = "/" /\ s[i + 1] = "/")

Branches ==
    OtherBranches \cup
    {b \in {AgentPrefix \o t : t \in UNION {[1..n -> Chars] : n \in 0..MaxTail}} :
        IsRefName(b)}

\* branch.startswith(prefix)
StartsWith(s, prefix) ==
    /\ Len(s) >= Len(prefix)
    /\ SubSeq(s, 1, Len(prefix)) = prefix

\* s.split(sep) for a separator of one character
RECURSIVE Split(_, _)
Split(s, sep) ==
    IF \A i \in DOMAIN s : s[i] # sep THEN <<s>>
    ELSE LET i == CHOOSE k \in DOMAIN s :
                      s[k] = sep /\ \A j \in 1..(k - 1) : s[j] # sep
         IN  <<SubSeq(s, 1, i - 1)>> \o Split(SubSeq(s, i + 1, Len(s)), sep)

DigitValue(c) ==
    CASE c = "0" -> 0 [] c = "1" -> 1 [] c = "2" -> 2 [] c = "3" -> 3
      [] c = "4" -> 4 [] c = "5" -> 5 [] c = "6" -> 6 [] c = "7" -> 7
      [] c = "8" -> 8 [] c = "9" -> 9

\* int(s) raises ValueError: over Chars, s is empty or has a non-digit
ValueError(s) == s = <<>> \/ \E i \in DOMAIN s : s[i] \notin Digits

\* int(s) for a string of digits
RECURSIVE int(_)
int(s) ==
    IF s = <<>> THEN 0
    ELSE 10 * int(SubSeq(s, 1, Len(s) - 1)) + DigitValue(s[Len(s)])

\* branch.split("/")[1].split("-")
NumberParts(branch) == Split(Split(branch, "/")[2], "-")

\* the branch passes "startswith" and int(parts[0]) does not raise
IsAgentBranch(branch) ==
    /\ StartsWith(branch, AgentPrefix)
    /\ ~ValueError(NumberParts(branch)[1])

\* pr["agent_num"] = agent_num
Numbered(pr) ==
    [number |-> pr.number, headRefName |-> pr.headRefName,
     agent_num |-> int(NumberParts(pr.headRefName)[1])]

\* the loop "for pr in prs": agent_prs in input order
RECURSIVE AgentPrs(_)
AgentPrs(prs) ==
    IF prs = <<>> THEN <<>>
    ELSE LET pr == prs[Len(prs)]
             front == AgentPrs(SubSeq(prs, 1, Len(prs) - 1))
         IN  IF IsAgentBranch(pr.headRefName)
             THEN Append(front, Numbered(pr))
             ELSE front

\* variant: a pull request goes before those of the same agent number
Before_unstable(a, b) == a.agent_num <= b.agent_num

\* list.sort is stable: a later element goes before the elements of a
\* strictly larger key only
Before(a, b) == a.agent_num < b.agent_num

\* s, sorted, with pr added as the last element of the unsorted list
Insert(s, pr) ==
    LET k == Cardinality({i \in DOMAIN s : ~Before(pr, s[i])})
    IN  SubSeq(s, 1, k) \o <<pr>> \o SubSeq(s, k + 1, Len(s))

\* agent_prs.sort(key=lambda x: x.get("agent_num", 999))
RECURSIVE SortByAgentNum(_)
SortByAgentNum(s) ==
    IF s = <<>> THEN <<>>
    ELSE Insert(SortByAgentNum(SubSeq(s, 1, Len(s) - 1)), s[Len(s)])

\* get_agent_prs when get_open_prs succeeds with the list prs
get_agent_prs(prs) == SortByAgentNum(AgentPrs(prs))

\* get_open_prs: the pull request at position i has number i
OpenPrs(branches) ==
    [i \in DOMAIN branches |-> [number |-> i, headRefName |-> branches[i]]]

InitAgentPrs ==
    /\ NoWorkflow
    /\ \E n \in 0..MaxBranches : \E branches \in [1..n -> Branches] :
          call = NotCalled(OpenPrs(branches))

CallGetAgentPrs ==
    /\ call.fn = "none"
    /\ call' = [fn |-> "get_agent_prs", input |-> call.input,
                output |-> get_agent_prs(call.input)]
    /\ UNCHANGED workflow

\* the classifier applied to its own output
CallGetAgentPrsAgain ==
    /\ call.fn = "get_agent_prs"
    /\ call' = [fn |-> "get_agent_prs_again", input |-> call.output,
                output |-> get_agent_prs(call.output)]
    /\ UNCHANGED workflow

NextAgentPrs == CallGetAgentPrs \/ CallGetAgentPrsAgain

SpecAgentPrs == InitAgentPrs /\ [][NextAgentPrs]_vars

(* ---------------------------------------------------------------- *)
(* handle_integrate: the merge plan                                  *)
(* ---------------------------------------------------------------- *)
\* the merge plan is computed for at most MaxAgents agents, numbered
\* 1..MaxAgentNum
MaxAgents == 2
MaxAgentNum == 2
AgentNums == 1..MaxAgentNum

LowerCase ==
    <<"a", "b", "c", "d", "e", "f", "g", "h", "i", "j", "k", "l", "m",
      "n", "o", "p", "q", "r", "s", "t", "u", "v", "w", "x", "y", "z">>
UpperCase ==
    <<"A", "B", "C", "D", "E", "F", "G", "H", "I", "J", "K", "L", "M",
      "N", "O", "P", "Q", "R", "S", "T", "U", "V", "W", "X", "Y", "Z">>

\* the words after "agent/<N>-" in a branch name
BranchSlugs ==
    {<<"d", "o", "c", "s">>,
     <<"w", "r", "i", "t", "e", "r">>,
     <<"d", "e", "p", "l", "o", "y">>,
     <<"t", "e", "s", "t", "s">>,
     <<"q", "a">>,
     <<"i", "n", "t", "e", "g", "r", "a", "t", "i", "o", "n">>,
     <<"b", "a", "c", "k", "e", "n", "d">>,
     <<"a", "p", "i">>,
     <<"s", "e", "c", "u", "r", "i", "t", "y">>,
     <<"d", "a", "t", "a", "b", "a", "s", "e">>,
     <<"l", "o", "g", "g", "i", "n", "g">>,
     <<"f", "r", "o", "n", "t", "e", "n", "d">>,
     <<"u", "i">>,
     <<"i", "n", "t", "e", "r", "f", "a", "c", "e">>,
     <<"o", "f", "f", "l", "i", "n", "e">>,
     <<"c", "o", "r", "e">>,
     <<"b", "u", "i", "l", "d">>,
     <<"t", "e", "s", "t", "-", "w", "r", "i", "t", "e", "r">>,
     <<"a", "p", "i", "-", "t", "e", "s", "t", "s">>,
     <<"b", "a", "c", "k", "e", "n", "d", "-", "u", "i">>}
\* one slug for each bucket
CommonSlugs ==
    {<<"d", "o", "c", "s">>, <<"q", "a">>, <<"a", "p", "i">>, <<"u", "i">>,
     <<"c", "o", "r", "e">>}
\* the slugs of a list of pull requests: at most one is not a common one
SlugLists(n) ==
    {slugs \in [1..n -> BranchSlugs] :
        Cardinality({i \in 1..n : slugs[i] \notin CommonSlugs}) <= 1}
\* the words after "<N>_" in the name of a prompt file
PromptSlugs ==
    {<<"D", "o", "c", "s">>,
     <<"A", "P", "I">>,
     <<"c", "o", "r", "e">>,
     <<"U", "I", "_", "T", "e", "s", "t", "s">>,
     <<"t", "e", "s", "t", "_", "w", "r", "i", "t", "e", "r">>}

\* c.lower() and c.upper() for one character
LowerChar(c) ==
    IF \E i \in DOMAIN UpperCase : UpperCase[i] = c
    THEN LowerCase[CHOOSE i \in DOMAIN UpperCase : UpperCase[i] = c]
    ELSE c
UpperChar(c) ==
    IF \E i \in DOMAIN LowerCase : LowerCase[i] = c
    THEN UpperCase[CHOOSE i \in DOMAIN LowerCase : LowerCase[i] = c]
    ELSE c
IsLetter(c) == LowerChar(c) # c \/ UpperChar(c) # c

\* s.lower()
lower(s) == [i \in DOMAIN s |-> LowerChar(s[i])]

\* s.title(): a letter is upper case after a non-letter, else lower case
title(s) ==
    [i \in DOMAIN s |->
        IF i = 1 \/ ~IsLetter(s[i - 1]) THEN UpperChar(s[i]) ELSE LowerChar(s[i])]

\* s.replace(old, new) for a non-empty old
RECURSIVE replace(_, _, _)
replace(s, old, new) ==
    IF Len(s) < Len(old) THEN s
    ELSE IF SubSeq(s, 1, Len(old)) = old
         THEN new \o replace(SubSeq(s, Len(old) + 1, Len(s)), old, new)
         ELSE <<s[1]>> \o replace(Tail(s), old, new)

\* str(n) for n >= 0
RECURSIVE str(_)
str(n) ==
    LET d == <<"0", "1", "2", "3", "4", "5", "6", "7", "8", "9">>[(n % 10) + 1]
    IN  IF n < 10 THEN <<d>> ELSE Append(str(n \div 10), d)

\* "sub in s"
Contains(s, sub) ==
    \E i \in 1..(Len(s) - Len(sub) + 1) : SubSeq(s, i, i + Len(sub) - 1) = sub

\* s.split(sep, 1)[1] when sep occurs in s
AfterFirst(s, sep) ==
    LET i == CHOOSE k \in DOMAIN s : s[k] = sep /\ \A j \in 1..(k - 1) : s[j] # sep
    IN  SubSeq(s, i + 1, Len(s))

\* agents_info from the pull requests of get_agent_prs
PrAgent(pr) ==
    [agent_num |-> pr.agent_num,
     role |-> title(replace(replace(pr.headRefName,
                                    AgentPrefix \o str(pr.agent_num) \o <<"-">>,
                                    <<>>),
                            <<"-">>, <<" ">>)),
     pr_num |-> pr.number]
PrAgentsInfo(prs) == [i \in DOMAIN prs |-> PrAgent(prs[i])]

\* agents_info from the sorted prompt files, each given by its stem
PromptAgent(stem) ==
    [agent_num |-> int(Split(stem, "_")[1]),
     role |-> replace(AfterFirst(stem, "_"), <<"_">>, <<" ">>),
     pr_num |-> None]
PromptAgentsInfo(stems) == [i \in DOMAIN stems |-> PromptAgent(stems[i])]

\* "if gh_success and prs: ... elif prompts_dir.exists(): ..."
agents_info(prs, stems) ==
    IF get_agent_prs(prs) # <<>>
    THEN PrAgentsInfo(get_agent_prs(prs))
    ELSE PromptAgentsInfo(stems)

DocsWords == {<<"d", "o", "c">>, <<"w", "r", "i", "t", "e", "r">>, <<"d", "e", "p", "l", "o", "y">>}
TestWords ==
    {<<"t", "e", "s", "t">>, <<"q", "a">>,
     <<"i", "n", "t", "e", "g", "r", "a", "t", "i", "o", "n">>}
BackendWords == {<<"b", "a", "c", "k", "e", "n", "d">>,
                 <<"a", "p", "i">>,
                 <<"s", "e", "c", "u", "r", "i", "t", "y">>,
                 <<"d", "a", "t", "a", "b", "a", "s", "e">>,
                 <<"l", "o", "g", "g", "i", "n", "g">>}
FrontendWords == {<<"f", "r", "o", "n", "t", "e", "n", "d">>,
                  <<"u", "i">>,
                  <<"i", "n", "t", "e", "r", "f", "a", "c", "e">>,
                  <<"o", "f", "f", "l", "i", "n", "e">>}

\* variant: the role is matched as it is written
role_lower_asis(role) == role

role_lower(role) == lower(role)

HasAny(s, words) == \E w \in words : Contains(s, w)

\* the if/elif chain that chooses docs_agents, test_agents, backend_agents,
\* frontend_agents or other_agents
Bucket(role) ==
    IF HasAny(role_lower(role), DocsWords) THEN "docs"
    ELSE IF HasAny(role_lower(role), TestWords) THEN "tests"
    ELSE IF HasAny(role_lower(role), BackendWords) THEN "backend"
    ELSE IF HasAny(role_lower(role), FrontendWords) THEN "frontend"
    ELSE "other"

BucketOrder == <<"docs", "tests", "backend", "frontend", "other">>
NoAgents == [b \in {"docs", "tests", "backend", "frontend", "other"} |-> <<>>]

\* variant: the entry is put at the front of its list
Enlist_front(list, agent_entry) == <<agent_entry>> \o list

\* "<bucket>_agents.append(agent_entry)"
Enlist(list, agent_entry) == Append(list, agent_entry)

\* the loop "for item in agents_info"
RECURSIVE Buckets(_)
Buckets(info) ==
    IF info = <<>> THEN NoAgents
    ELSE LET item == info[Len(info)]
         IN  [Buckets(SubSeq(info, 1, Len(info) - 1))
                 EXCEPT ![Bucket(item.role)] = Enlist(@, item)]

\* the headings and agent lines: one group per non-empty list, numbered by
\* merge_order
Plan(buckets) ==
    LET shown == SelectSeq(BucketOrder, LAMBDA b : buckets[b] # <<>>)
    IN  [i \in DOMAIN shown |->
            [merge_order |-> i, bucket |-> shown[i], agents |-> buckets[shown[i]]]]

\* variant: every entry adds its pr_num
Truthy_always(pr_num) == TRUE

\* "if pr_num": None and 0 are false
Truthy(pr_num) == pr_num # None /\ pr_num # 0

\* the pr_num appended to merge_sequence while one list is written
PrNums(list) ==
    LET with == SelectSeq(list, LAMBDA a : Truthy(a.pr_num))
    IN  [i \in DOMAIN with |-> with[i].pr_num]

merge_sequence(buckets) ==
    PrNums(buckets["docs"]) \o PrNums(buckets["tests"])
        \o PrNums(buckets["backend"]) \o PrNums(buckets["frontend"])
        \o PrNums(buckets["other"])

\* the merge plan of handle_integrate for the open pull requests prs and the
\* prompt files stems
MergePlan(input) ==
    LET info == agents_info(input.prs, input.stems)
        buckets == Buckets(info)
    IN  [agents_info |-> info,
         plan |-> Plan(buckets),
         merge_sequence |-> merge_sequence(buckets)]

\* branches agent/<N>-<slug> of the open pull requests
AgentBranches(nums, slugs) ==
    [i \in DOMAIN nums |-> AgentPrefix \o str(nums[i]) \o <<"-">> \o slugs[i]]

\* prompt files <i>_<slug>.md, one per number, in sorted order
PromptStems(slugs) == [i \in DOMAIN slugs |-> str(i) \o <<"_">> \o slugs[i]]

InitMerge ==
    /\ NoWorkflow
    /\ \E n \in 0..MaxAgents :
          \/ \E nums \in [1..n -> AgentNums], slugs \in SlugLists(n) :
                call = NotCalled([prs |-> OpenPrs(AgentBranches(nums, slugs)),
                                  stems |-> <<>>])
          \/ \E slugs \in [1..n -> PromptSlugs] :
                call = NotCalled([prs |-> <<>>, stems |-> PromptStems(slugs)])

CallMergePlan ==
    /\ call.fn = "none"
    /\ call' = [fn |-> "merge_plan", input |-> call.input,
                output |-> MergePlan(call.input), first |-> <<>>]
    /\ UNCHANGED workflow

\* handle_integrate is run again on the same pull requests and files
CallMergePlanAgain ==
    /\ call.fn = "merge_plan"
    /\ call' = [fn |-> "merge_plan_again", input |-> call.input,
                output |-> MergePlan(call.input), first |-> call.output]
    /\ UNCHANGED workflow

NextMerge == CallMergePlan \/ CallMergePlanAgain

SpecMerge == InitMerge /\ [][NextMerge]_vars

(* ---------------------------------------------------------------- *)
(* state.py: the content of WORKFLOW_STATE.json                      *)
(* ---------------------------------------------------------------- *)
\* JSON values
JNull == [j |-> "null"]
JNumber(n) == [j |-> "number", v |-> n]
JString(s) == [j |-> "string", v |-> s]
JBool(b) == [j |-> "bool", v |-> b]
JArray(s) == [j |-> "array", v |-> s]
JObject(r) == [j |-> "object", v |-> r]

\* an Optional field is written as null when it is None
DumpOptional(x, json) == IF x = None THEN JNull ELSE json

DumpAgent(a) ==
    JObject([id |-> JNumber(a.id), role |-> JString(a.role),
             slug |-> JString(a.slug), branch |-> JString(a.branch),
             status |-> JString(a.status),
             started_at |-> DumpOptional(a.started_at, JString(a.started_at)),
             completed_at |-> DumpOptional(a.completed_at, JString(a.completed_at)),
             pr_number |-> DumpOptional(a.pr_number, JNumber(a.pr_number)),
             wave |-> JNumber(a.wave)])

DumpWave(wave) ==
    IF wave = NoWave THEN JNull
    ELSE JObject([number |-> JNumber(wave[1].number),
                  name |-> JString(wave[1].name),
                  agents |-> JArray(wave[1].agents),
                  status |-> JString(wave[1].status)])

\* json.dumps(state.model_dump())
model_dump(state) ==
    JObject([phase |-> JString(state.phase),
             iteration |-> JNumber(state.iteration),
             status |-> JString(state.status),
             review_complete |-> JBool(state.review_complete),
             mode |-> JString(state.mode),
             current_task_index |-> JNumber(state.current_task_index),
             wave |-> DumpWave(state.wave),
             agents |-> JArray([i \in DOMAIN state.agents |->
                                   DumpAgent(state.agents[i])]),
             history |-> JArray(state.history),
             created_at |-> JString(state.created_at),
             last_updated |-> JString(state.last_updated)])

\* variant: a null is read as 0
LoadOptional_zero(json) == IF json = JNull THEN 0 ELSE json.v

\* null is read as None
LoadOptional(json) == IF json = JNull THEN None ELSE json.v

LoadAgent(json) ==
    [id |-> json.v.id.v, role |-> json.v.role.v, slug |-> json.v.slug.v,
     branch |-> json.v.branch.v, status |-> json.v.status.v,
     started_at |-> LoadOptional(json.v.started_at),
     completed_at |-> LoadOptional(json.v.completed_at),
     pr_number |-> LoadOptional(json.v.pr_number),
     wave |-> json.v.wave.v]

LoadWave(json) ==
    IF json = JNull THEN NoWave
    ELSE <<[number |-> json.v.number.v, name |-> json.v.name.v,
            agents |-> json.v.agents.v, status |-> json.v.status.v]>>

\* WorkflowState(**json.loads(text))
WorkflowState(json) ==
    [phase |-> json.v.phase.v,
     iteration |-> json.v.iteration.v,
     status |-> json.v.status.v,
     review_complete |-> json.v.review_complete.v,
     mode |-> json.v.mode.v,
     current_task_index |-> json.v.current_task_index.v,
     wave |-> LoadWave(json.v.wave),
     agents |-> [i \in DOMAIN json.v.agents.v |-> LoadAgent(json.v.agents.v[i])],
     history |-> json.v.history.v,
     created_at |-> json.v.created_at.v,
     last_updated |-> json.v.last_updated.v]

\* the states a handler can hand to save_state
WorkflowStates ==
    [phase : {"idle", "review", "launch", "integrate"},
     iteration : {0},
     status : {"not_started", "reviewing", "launching", "integrating"},
     review_complete : BOOLEAN,
     mode : {"parallel", "sequential"},
     current_task_index : 0..(MaxNum + 1),
     wave : {NoWave, WaveInfo(1, "w")},
     agents : {<<>>, ReviewedAgents, AgentsWithPr},
     history : {<<>>},
     created_at : Times,
     last_updated : Times]

\* save_state is called at time now with a state loaded or made before
InitState ==
    /\ NoWorkflow
    /\ \E state \in WorkflowStates, now \in Times :
          /\ state.created_at <= state.last_updated
          /\ state.last_updated <= now
          /\ call = NotCalled([state |-> state, now |-> now])

CallSaveState ==
    /\ call.fn = "none"
    /\ call' = [fn |-> "save_state", input |-> call.input,
                output |-> model_dump([call.input.state EXCEPT
                                          !.last_updated = call.input.now])]
    /\ UNCHANGED workflow

CallLoadState ==
    /\ call.fn = "save_state"
    /\ call' = [fn |-> "load_state", input |-> call.input,
                output |-> WorkflowState(call.output)]
    /\ UNCHANGED workflow

NextState == CallSaveState \/ CallLoadState

SpecState == InitState /\ [][NextState]_vars

(* ---------------------------------------------------------------- *)
(* Properties                                                        *)
(* ---------------------------------------------------------------- *)
\* the persisted WorkflowState can be read
Stored == fileState = "ok"

\* the answers of a launch that got past every precondition
LaunchAnswers == {"next_task", "all_complete", "launch_sequence"}

PhaseRank(p) ==
    CASE p = "idle" -> 0
      [] p = "review" -> 1
      [] p = "launch" -> 2
      [] p = "integrate" -> 3
      [] p = "decide" -> 4

Range(s) == {s[i] : i \in DOMAIN s}

\* s lists files by ascending numeric prefix, then ascending name
Ascending(s) ==
    \A i, j \in DOMAIN s :
        i < j => \/ s[i][1] < s[j][1]
                 \/ (s[i][1] = s[j][1] /\ s[i][2] < s[j][2])

\* every file of S not in s comes after every file of s
Smallest(s, S) ==
    \A f \in S \ Range(s) : \A i \in DOMAIN s :
        \/ s[i][1] < f[1]
        \/ (s[i][1] = f[1] /\ s[i][2] < f[2])

\* C1: a launch made while review_complete is false (setup done) is
\* answered with the "review not complete" guidance and leaves the state
\* file as it was: phase, status, mode, current_task_index, last_updated.
C1_RejectedLaunchKeepsState ==
    [][(lastOp' = "launch" /\ check_maw_setup
            /\ ~load_state(clock).review_complete)
        => (result' = "review_not_complete"
            /\ fileState' = fileState /\ st' = st)]_vars

\* a launch was rejected in a workflow under review that has task files
C1_Witness ==
    /\ lastOp = "launch" /\ result = "review_not_complete"
    /\ Stored /\ st.phase = "review" /\ taskFiles # {}

C3_SequentialOrder ==
    /\ served # <<>> =>
         /\ Stored
         /\ Len(served) = st.current_task_index
         /\ Range(served) \subseteq taskFiles
         /\ Ascending(served)
         /\ Smallest(served, taskFiles)
    /\ (lastOp = "launch" /\ result = "next_task" /\ served # <<>>) =>
         returned = <<served[Len(served)]>>
    /\ (lastOp = "launch" /\ result = "all_complete") =>
         /\ st.current_task_index = Cardinality(taskFiles)
         /\ served # <<>> => Range(served) = taskFiles

\* every task was returned in turn and the next call said "all complete"
C3_Witness ==
    /\ lastOp = "launch" /\ result = "all_complete"
    /\ Len(served) >= 2 /\ Range(served) = taskFiles
    /\ st.current_task_index = Len(served)

\* C4: current_task_index is between 0 and the number of task files.
C4_CursorInRange ==
    Stored =>
        /\ st.current_task_index >= 0
        /\ st.current_task_index <= Cardinality(taskFiles)

\* the cursor stands at the end of a list of two or more task files
C4_Witness ==
    /\ Stored /\ st.current_task_index = Cardinality(taskFiles)
    /\ Cardinality(taskFiles) >= 2

\* C5: current_task_index grows only in a sequential launch that returns
\* a task, and then by one; review, parallel launch, checkin, integrate,
\* decide, a rejected launch and "all complete" leave it unchanged.
C5_CursorMoves ==
    [][LET before == load_state(clock).current_task_index
           after  == IF fileState' = "ok" THEN st'.current_task_index ELSE 0
       IN  /\ (lastOp' = "launch" /\ result' = "next_task")
                 => after = before + 1
           /\ after > before
                 => (lastOp' = "launch" /\ result' = "next_task")
           /\ (\/ lastOp' \in {"review", "checkin", "integrate", "decide"}
               \/ (lastOp' = "launch" /\ result' # "next_task"))
                 => after = before]_vars

\* a parallel launch was made with the cursor in the middle of the list
C5_Witness ==
    /\ Stored /\ lastOp = "launch" /\ result = "launch_sequence"
    /\ st.current_task_index > 0
    /\ st.current_task_index < Cardinality(taskFiles)

\* C6: once setup is done, review is accepted in every phase; it leaves
\* phase = review, status = reviewing and review_complete as it was.
C6_ReviewFromAnyPhase ==
    [][(lastOp' = "review" /\ check_maw_setup)
        => /\ result' = "analysis_prompt"
           /\ fileState' = "ok"
           /\ st'.phase = "review"
           /\ st'.status = "reviewing"
           /\ st'.review_complete = load_state(clock).review_complete]_vars

\* a review with a wave name was accepted after review_complete was set
C6_Witness ==
    /\ Stored /\ lastOp = "review" /\ result = "analysis_prompt"
    /\ st.review_complete /\ st.wave # NoWave

\* C7: a launch that directly follows a review operation, with no marking
\* of review completion in between, is rejected.
C7_LaunchPausedAfterReview ==
    [][(lastOp = "review" /\ result = "analysis_prompt"
            /\ lastOp' = "launch")
        => result' \notin LaunchAnswers]_vars

\* C8 as stated: after every launch that got past the preconditions,
\* "all complete" included, phase = launch, status = launching and mode
\* is the requested mode.
C8_LaunchSetsState ==
    (lastOp = "launch" /\ result \in LaunchAnswers) =>
        /\ Stored
        /\ st.phase = "launch"
        /\ st.status = "launching"
        /\ st.mode = IF result = "launch_sequence"
                     THEN "parallel" ELSE "sequential"

\* C8 amended: a launch that returns tasks leaves phase = launch, status =
\* launching and mode = the requested mode; a sequential request answered
\* "all complete" leaves the state file as it was.
C8_LaunchWithTasksSetsState ==
    [][lastOp' = "launch" =>
        /\ result' \in {"next_task", "launch_sequence"} =>
             /\ fileState' = "ok"
             /\ st'.phase = "launch"
             /\ st'.status = "launching"
             /\ st'.mode = IF result' = "launch_sequence"
                           THEN "parallel" ELSE "sequential"
        /\ result' = "all_complete" =>
             (fileState' = fileState /\ st' = st)]_vars

\* a parallel launch was made after a sequential pass had begun
C8_Witness ==
    /\ Stored /\ lastOp = "launch" /\ result = "launch_sequence"
    /\ st.mode = "parallel" /\ served # <<>>

\* C9: integrate leaves phase = integrate and status = integrating, and a
\* second integrate with the same inputs right after the first changes
\* nothing in the state but last_updated.
C9_IntegrateIdempotent ==
    [][(lastOp' = "integrate" /\ check_maw_setup)
        => /\ fileState' = "ok"
           /\ st'.phase = "integrate"
           /\ st'.status = "integrating"
           /\ (lastOp = "integrate" /\ result' = result)
                 => st' = [st EXCEPT !.last_updated = st'.last_updated]]_vars

\* integrate was called twice in a row on a launched workflow
C9_Witness ==
    /\ Stored /\ lastOp = "integrate" /\ repeated
    /\ st.phase = "integrate" /\ st.review_complete

\* C10: after a decide that passes the setup check, the persisted phase
\* is decide.
C10_DecideSetsPhase ==
    (lastOp = "decide" /\ result = "decision_framework") =>
        (Stored /\ st.phase = "decide")

\* C11: a checkin never changes phase or status (nor anything else in the
\* state file), whatever its inputs and whatever the phase.
C11_CheckinKeepsPhase ==
    [][lastOp' = "checkin"
        => /\ fileState' = fileState
           /\ st'.phase = st.phase
           /\ st'.status = st.status]_vars

\* manual reports were checked in while the workflow was in phase launch
C11_Witness ==
    /\ Stored /\ lastOp = "checkin" /\ result = "report_dashboard"
    /\ st.phase = "launch" /\ st.status = "launching"

\* C12: while WORKFLOW_STATE.json or MAW_README.md is missing, review,
\* launch, checkin, integrate, decide and clean answer "setup incomplete"
\* and leave the state file, AGENT_PROMPTS/ and the task files as they were.
C12_SetupIncompleteChangesNothing ==
    [][((fileState = "missing" \/ ~readme)
            /\ lastOp' \in {"review", "launch", "checkin", "integrate",
                            "decide", "clean"})
        => /\ result' = "setup_incomplete"
           /\ UNCHANGED <<fileState, st, readme, promptsDir, taskFiles>>]_vars

\* clean was refused for the missing MAW_README.md with task files present
C12_Witness ==
    /\ lastOp = "clean" /\ result = "setup_incomplete"
    /\ Stored /\ ~readme /\ taskFiles # {} /\ st.phase # "idle"

\* C20: clean leaves a state file that holds phase = idle, iteration = 0,
\* no agents, review_complete = false and current_task_index = 0.
C20_CleanResets ==
    (lastOp = "clean" /\ result = "cleaned") =>
        /\ Stored
        /\ st.phase = "idle"
        /\ st.iteration = 0
        /\ st.agents = <<>>
        /\ st.review_complete = FALSE
        /\ st.current_task_index = 0

\* clean has reset the state at a later time than the project was set up
C20_Witness ==
    /\ lastOp = "clean" /\ result = "cleaned"
    /\ Stored /\ st.phase = "idle" /\ st.created_at > 0 /\ taskFiles = {}


\* the pull requests of the list prs that list path among their files
Listing(prs, path) ==
    {i \in DOMAIN prs : \E k \in DOMAIN prs[i].files : prs[i].files[k] = path}

\* C13: detect_conflicts returns the empty list if and only if every file
\* path is in the file list of at most one pull request of its argument
C13_EmptyIffNoSharedPath ==
    call.fn = "detect_conflicts" =>
        (call.output = <<>>
            <=> \A path \in Paths : Cardinality(Listing(call.input, path)) <= 1)

\* two pull requests with files, no path shared, and no conflict reported
C13_Witness ==
    /\ call.fn = "detect_conflicts"
    /\ Len(call.input) >= 2
    /\ \A i \in DOMAIN call.input : call.input[i].files # <<>>
    /\ call.output = <<>>

\* C14: detect_conflicts returns at most as many entries as there are
\* distinct paths in its argument; the PR list of each entry has two or more
\* numbers, each the number of a pull request that lists the entry's file
C14_ConflictEntriesSound ==
    call.fn = "detect_conflicts" =>
        /\ Len(call.output)
             <= Cardinality({path \in Paths : Listing(call.input, path) # {}})
        /\ \A e \in DOMAIN call.output :
             /\ Len(call.output[e].prs) >= 2
             /\ \A k \in DOMAIN call.output[e].prs :
                   \E i \in Listing(call.input, call.output[e].file) :
                       call.input[i].number = call.output[e].prs[k]

\* one path of three pull requests and another path of one pull request only
C14_Witness ==
    /\ call.fn = "detect_conflicts"
    /\ Len(call.output) = 1
    /\ Len(call.output[1].prs) = 3
    /\ \E path \in Paths : Cardinality(Listing(call.input, path)) = 1

\* the digits at the start of the text after "agent/"
LeadingDigits(branch) ==
    LET t == SubSeq(branch, Len(AgentPrefix) + 1, Len(branch))
        n == CHOOSE k \in 0..Len(t) :
                 /\ \A i \in 1..k : t[i] \in Digits
                 /\ k < Len(t) => t[k + 1] \notin Digits
    IN  SubSeq(t, 1, n)

\* the branch reads agent/<N>-... : "agent/", one or more digits, then
\* either nothing or "-" and any text
IsNumberedAgentBranch(branch) ==
    /\ StartsWith(branch, AgentPrefix)
    /\ LeadingDigits(branch) # <<>>
    /\ LET rest == SubSeq(branch, Len(AgentPrefix) + Len(LeadingDigits(branch)) + 1,
                          Len(branch))
       IN  rest = <<>> \/ rest[1] = "-"

\* C15: get_agent_prs keeps exactly the pull requests whose branch reads
\* agent/<N>-... with N an integer, attaches N as agent_num, drops every
\* other pull request and returns the kept ones by ascending agent_num
C15_KeepsExactlyNumberedBranches ==
    call.fn = "get_agent_prs" =>
        /\ \A i \in DOMAIN call.input :
              IsNumberedAgentBranch(call.input[i].headRefName)
                  <=> \E k \in DOMAIN call.output :
                         /\ call.output[k].number = call.input[i].number
                         /\ call.output[k].headRefName = call.input[i].headRefName
                         /\ call.output[k].agent_num
                              = int(LeadingDigits(call.input[i].headRefName))
        /\ Len(call.output) <= Len(call.input)
        /\ \A j, k \in DOMAIN call.output :
              j < k => call.output[j].agent_num <= call.output[k].agent_num

\* C16: get_agent_prs applied to its own output returns that output, with
\* the same agent numbers and in the same order
C16_Idempotent ==
    call.fn = "get_agent_prs_again" => call.output = call.input

\* two pull requests of the same agent number on different branches
C16_Witness ==
    /\ call.fn = "get_agent_prs_again"
    /\ Len(call.output) = 2
    /\ call.output[1].agent_num = call.output[2].agent_num
    /\ call.output[1].headRefName # call.output[2].headRefName

\* the answers of the merge plan
MergeCalls == {"merge_plan", "merge_plan_again"}

\* the place of a bucket in the order docs, tests, backend, frontend, other
BucketRank(b) == CHOOSE i \in DOMAIN BucketOrder : BucketOrder[i] = b

\* the place of an entry in a list that holds it
IndexIn(list, a) == CHOOSE i \in DOMAIN list : list[i] = a

\* the agent lines of a plan, from top to bottom
RECURSIVE Flat(_)
Flat(plan) ==
    IF plan = <<>> THEN <<>>
    ELSE Flat(SubSeq(plan, 1, Len(plan) - 1)) \o plan[Len(plan)].agents

\* C17: the merge plan lists its buckets in the order docs, tests, backend,
\* frontend, other, leaves out the empty ones, lists every agent, keeps the
\* input order inside each bucket, and is the same when computed again
C17_BucketOrderFixed ==
    call.fn \in MergeCalls =>
        LET info == call.output.agents_info
            plan == call.output.plan
        IN  /\ \A i, j \in DOMAIN plan :
                  i < j => BucketRank(plan[i].bucket) < BucketRank(plan[j].bucket)
            /\ \A i \in DOMAIN plan : plan[i].agents # <<>>
            /\ Range(Flat(plan)) = Range(info)
            /\ Len(Flat(plan)) = Len(info)
            /\ \A i \in DOMAIN plan : \A m, n \in DOMAIN plan[i].agents :
                  m < n => IndexIn(info, plan[i].agents[m])
                             < IndexIn(info, plan[i].agents[n])
            /\ call.fn = "merge_plan_again" => call.output = call.first

\* the plan was computed twice; the agent given second is listed first
C17_Witness ==
    /\ call.fn = "merge_plan_again"
    /\ Len(call.output.plan) = 2
    /\ call.output.plan[1].agents = <<call.output.agents_info[2]>>

\* the rule table: docs, tests, backend, frontend and the words of each
RuleTable ==
    <<[bucket |-> "docs", words |-> {<<"d", "o", "c">>,
                                      <<"w", "r", "i", "t", "e", "r">>,
                                      <<"d", "e", "p", "l", "o", "y">>}],
      [bucket |-> "tests", words |-> {<<"t", "e", "s", "t">>,
                                       <<"q", "a">>,
                                       <<"i", "n", "t", "e", "g", "r", "a", "t", "i", "o", "n">>}],
      [bucket |-> "backend", words |-> {<<"b", "a", "c", "k", "e", "n", "d">>,
                                         <<"a", "p", "i">>,
                                         <<"s", "e", "c", "u", "r", "i", "t", "y">>,
                                         <<"d", "a", "t", "a", "b", "a", "s", "e">>,
                                         <<"l", "o", "g", "g", "i", "n", "g">>}],
      [bucket |-> "frontend", words |-> {<<"f", "r", "o", "n", "t", "e", "n", "d">>,
                                          <<"u", "i">>,
                                          <<"i", "n", "t", "e", "r", "f", "a", "c", "e">>,
                                          <<"o", "f", "f", "l", "i", "n", "e">>}]>>

\* the rules whose words occur in the lower-cased role
Matching(role) ==
    {r \in DOMAIN RuleTable :
        \E w \in RuleTable[r].words : Contains(lower(role), w)}

FirstMatch(role) ==
    IF Matching(role) = {} THEN "other"
    ELSE RuleTable[CHOOSE r \in Matching(role) :
                       \A q \in Matching(role) : r <= q].bucket

\* C18: every agent is in exactly one bucket, the one of the first rule of
\* the table that matches its lower-cased role, or other when none matches
C18_FirstMatchingRule ==
    call.fn \in MergeCalls =>
        LET info == call.output.agents_info
            plan == call.output.plan
        IN  /\ \A k \in DOMAIN info :
                  Cardinality({i \in DOMAIN plan :
                                  info[k] \in Range(plan[i].agents)}) = 1
            /\ \A i \in DOMAIN plan : \A m \in DOMAIN plan[i].agents :
                  plan[i].bucket = FirstMatch(plan[i].agents[m].role)

\* a capitalised role that matches the docs rule and the tests rule
C18_Witness ==
    /\ call.fn = "merge_plan"
    /\ \E i \in DOMAIN call.output.plan : \E m \in DOMAIN call.output.plan[i].agents :
          LET role == call.output.plan[i].agents[m].role
          IN  /\ call.output.plan[i].bucket = "docs"
              /\ Cardinality(Matching(role)) = 2
              /\ lower(role) # role

\* C19: the merge sequence is the PR numbers of the agent lines that have
\* one, in the order of the lines; every PR number of an agent is in it once
\* and an agent without PR number adds nothing
C19_MergeSequence ==
    call.fn \in MergeCalls =>
        LET info == call.output.agents_info
            seq == call.output.merge_sequence
            present == SelectSeq(Flat(call.output.plan), LAMBDA a : a.pr_num # None)
        IN  /\ seq = [i \in DOMAIN present |-> present[i].pr_num]
            /\ \A i \in DOMAIN seq : seq[i] # None
            /\ \A k \in DOMAIN info :
                  info[k].pr_num # None
                      => Cardinality({i \in DOMAIN seq : seq[i] = info[k].pr_num}) = 1

\* the second pull request of the list is merged before the first
C19_Witness ==
    /\ call.fn = "merge_plan"
    /\ call.output.merge_sequence = <<2, 1>>
    /\ call.output.agents_info[1].pr_num = 1

\* C21: created_at of a state that is stored before and after a step is the
\* same before and after it
C21_CreatedAtImmutable ==
    [][(Stored /\ Stored') => st'.created_at = st.created_at]_vars

\* the operation op answered res after it wrote the state file
Persisted(op, res) ==
    \/ op = "review" /\ res = "analysis_prompt"
    \/ op = "launch" /\ res \in {"next_task", "launch_sequence"}
    \/ op = "integrate" /\ res \in {"from_prs", "from_prompts", "from_nothing"}
    \/ op = "clean" /\ res = "cleaned"

\* C22: a review, successful launch, integrate, clean or first setup leaves
\* last_updated equal to the time of its write, and last_updated of the
\* stored state never decreases
C22_LastUpdatedRefreshed ==
    [][/\ (Persisted(lastOp', result') \/ (lastOp' = "setup" /\ fileState = "missing"))
           => (Stored' /\ st'.last_updated = clock')
       /\ (Stored /\ Stored') => st'.last_updated >= st.last_updated]_vars

\* an integrate wrote the state later than the state was created
C22_Witness ==
    /\ lastOp = "integrate" /\ Stored
    /\ st.created_at = 0 /\ st.last_updated = 1 /\ clock = 1

\* the fields of a WorkflowState other than last_updated
KeptFields ==
    {"phase", "iteration", "status", "review_complete", "mode",
     "current_task_index", "wave", "agents", "history", "created_at"}

\* C23: a state that was saved and loaded back has every field as it was
\* saved, except last_updated, which is not earlier than before
C23_RoundTrip ==
    call.fn = "load_state" =>
        /\ DOMAIN call.output = KeptFields \cup {"last_updated"}
        /\ \A f \in KeptFields : call.output[f] = call.input.state[f]
        /\ call.output.last_updated >= call.input.state.last_updated

\* a state with a wave, agents with and without pull request, saved later
C23_Witness ==
    /\ call.fn = "load_state"
    /\ call.output.wave # NoWave
    /\ call.output.agents = AgentsWithPr
    /\ call.output.last_updated > call.input.state.last_updated

\* the fields that no handler but clean sets before it saves
CarriedFields ==
    {"iteration", "review_complete", "agents", "history", "created_at"}

C25_AgentsKept ==
    [][(Stored /\ Stored' /\ ~(lastOp' = "clean" /\ result' = "cleaned")) =>
          /\ \A i, j \in DOMAIN st'.agents :
                i # j => st'.agents[i].id # st'.agents[j].id
          /\ \A i \in DOMAIN st.agents :
                st.agents[i].pr_number # None =>
                    \E j \in DOMAIN st'.agents :
                        /\ st'.agents[j].id = st.agents[i].id
                        /\ st'.agents[j].pr_number = st.agents[i].pr_number]_vars

\* review, launch and integrate ran after a pull request was recorded
C25_Witness ==
    /\ lastOp = "integrate" /\ Stored
    /\ st.phase = "integrate" /\ st.wave # NoWave /\ st.mode = "sequential"
    /\ st.agents = AgentsWithPr

\* C26: when gh fails, check-in answers with the manual fallback and leaves
\* the state file as it is, and integrate still answers from the task files
\* and stores phase = integrate
C26_GatewayFailureNotFatal ==
    [][asked'.gh = "gh_failed" =>
          /\ lastOp' = "checkin" =>
                /\ result' = "gh_fallback"
                /\ UNCHANGED <<fileState, st, readme, promptsDir, taskFiles>>
          /\ lastOp' = "integrate" =>
                /\ result' \in {"from_prompts", "from_nothing"}
                /\ Stored'
                /\ st'.phase = "integrate"
                /\ st'.status = "integrating"]_vars

\* integrate ran on a launched workflow while gh failed
C26_Witness ==
    /\ lastOp = "integrate" /\ asked.gh = "gh_failed"
    /\ result = "from_prompts" /\ taskFiles # {}
    /\ Stored /\ st.phase = "integrate" /\ st.mode = "sequential"

\* C28: a parallel launch returns every task file when no agent_id is given
\* and exactly the task files whose numeric prefix is agent_id when one is
\* given
C28_AgentFilter ==
    (lastOp = "launch" /\ result = "launch_sequence") =>
        returned = SelectSeq(prompt_files,
                             LAMBDA pf : \/ asked.agent_id = NoAgent
                                         \/ agent_num(pf) = asked.agent_id)

\* C29: when the write of the state file is interrupted, the state that was
\* stored before is still what the next operation loads
C29_InterruptedWriteKeepsState ==
    [][lastOp' = "review_interrupted" =>
          /\ fileState' = fileState
          /\ st' = st]_vars

\* C30: a launch on a reviewed workflow whose task directory is missing or
\* holds no task file is refused with a failure message and leaves the state
\* file, mode and current_task_index included, and the files as they are
C30_RefusedLaunchKeepsAll ==
    [][(/\ lastOp' = "launch"
        /\ check_maw_setup /\ Stored /\ st.review_complete
        /\ (~promptsDir \/ taskFiles = {}))
          => /\ result' \in {"no_prompts_dir", "no_prompt_files"}
             /\ UNCHANGED <<fileState, st, readme, promptsDir, taskFiles>>]_vars

\* a reviewed workflow with a wave but no task file was refused the launch
C30_Witness ==
    /\ lastOp = "launch" /\ result = "no_prompt_files"
    /\ Stored /\ st.review_complete /\ st.phase = "review" /\ st.wave # NoWave

\* servers p and q both loaded the state before the other one saved
Raced(p, q) == q \notin running[p].after /\ p \notin running[q].after

\* C27: two sequential launches that both returned a task: if both loaded
\* before either saved, they returned the same task and the cursor is one
\* past the one they loaded; if the second loaded after the first returned,
\* they returned different tasks and the cursor is two past the first one's
C27_LostUpdate ==
    \A p, q \in Servers :
        (/\ p # q
         /\ running[p].pc = "returned" /\ running[q].pc = "returned"
         /\ running[p].task # <<>> /\ running[q].task # <<>>)
        => /\ Raced(p, q) =>
                /\ running[p].task = running[q].task
                /\ st.current_task_index = running[p].state.current_task_index + 1
           /\ p \in running[q].after =>
                /\ running[p].task # running[q].task
                /\ st.current_task_index = running[p].state.current_task_index + 2

\* both servers returned the first task and the cursor stands at 1
C27_Witness ==
    /\ \A p \in Servers : running[p].pc = "returned" /\ running[p].task # <<>>
    /\ Raced(1, 2)
    /\ st.current_task_index = 1
    /\ Cardinality(taskFiles) = 2

\* the fields handle_review does not assign
ReviewKept ==
    {"review_complete", "mode", "current_task_index", "iteration", "agents",
     "history", "created_at"}

\* C32: a review of a stored state sets phase and status, refreshes
\* last_updated and, when a wave name is given, sets wave; review_complete,
\* mode, current_task_index, iteration, agents, history and created_at stay as
\* they were, and so does wave when no wave name is given.
C32_ReviewFrame ==
    [][(lastOp' = "review" /\ result' = "analysis_prompt" /\ Stored) =>
          /\ Stored'
          /\ \A f \in ReviewKept : st'[f] = st[f]
          /\ (asked'.wave_name = "") => (st'.wave = st.wave)
          /\ (asked'.wave_name # "") =>
                (st'.wave = WaveInfo(st.iteration + 1, asked'.wave_name))
          /\ st'.phase = "review"
          /\ st'.status = "reviewing"
          /\ st'.last_updated = clock']_vars

\* a review without wave name was made after a sequential launch: the cursor,
\* the mode, the agents and the wave of the earlier review are still there
C32_Witness ==
    /\ Stored
    /\ lastOp = "review" /\ result = "analysis_prompt"
    /\ asked.wave_name = ""
    /\ st.phase = "review"
    /\ st.current_task_index > 0
    /\ st.mode = "sequential"
    /\ st.review_complete
    /\ st.agents # <<>>
    /\ st.wave # NoWave

C34_SetupKeepsState ==
    [][(lastOp' = "setup" /\ fileState # "missing") =>
          (fileState' = fileState /\ st' = st)]_vars

\* setup was called at time 1 on a workflow that integrate had saved at time 0
C34_Witness ==
    /\ lastOp = "setup"
    /\ Stored
    /\ st.phase = "integrate"
    /\ st.review_complete
    /\ st.last_updated = 0
    /\ clock = 1

\* C35: status writes nothing: WORKFLOW_STATE.json stays missing, unreadable
\* or stored with the same content, the other files stay, and the setup check
\* gives the same outcome after it as before.
C35_StatusIsQuery ==
    [][(lastOp' = "status") =>
          /\ fileState' = fileState
          /\ st' = st
          /\ readme' = readme
          /\ promptsDir' = promptsDir
          /\ taskFiles' = taskFiles
          /\ check_maw_setup' = check_maw_setup]_vars

\* status was asked while WORKFLOW_STATE.json could not be parsed
C35_Witness ==
    /\ lastOp = "status"
    /\ fileState = "corrupt"
    /\ readme

(* ---------------------------------------------------------------- *)
(* The tools alone                                                   *)
(* ---------------------------------------------------------------- *)
\* C31: from a project that was just set up, with the tool operations only
\* (setup, status, review, launch, checkin, integrate, decide, learn, clean),
\* review_complete stays false, phase is never launch and every launch is
\* refused for the missing review.
C31_ToolsNeverCompleteReview ==
    /\ Stored
    /\ ~st.review_complete
    /\ st.phase # "launch"
    /\ lastOp = "launch" => (result = "review_not_complete" /\ returned = <<>>)

\* a launch was refused after a review and an integrate, with task files there
C31_Witness ==
    /\ lastOp = "launch"
    /\ result = "review_not_complete"
    /\ st.phase = "integrate"
    /\ st.wave # NoWave
    /\ taskFiles # {}

(* ---------------------------------------------------------------- *)
(* Iterations                                                        *)
(* ---------------------------------------------------------------- *)
ToolOps ==
    {"setup", "status", "review", "launch", "checkin", "integrate", "decide",
     "learn", "clean"}

\* C36: no tool operation increases iteration; decide and review leave it as
\* it is; the one operation that changes it is clean, and clean leaves it 0.
C36_IterationOnlyReset ==
    [][(lastOp' \in ToolOps /\ Stored) =>
          /\ Stored'
          /\ st'.iteration <= st.iteration
          /\ (lastOp' \in {"decide", "review"}) => (st'.iteration = st.iteration)
          /\ (st'.iteration # st.iteration) => (lastOp' = "clean")
          /\ (lastOp' = "clean") => (st'.iteration = 0)]_vars

\* decide was asked in the second iteration, after an integrate
C36_Witness ==
    /\ lastOp = "decide" /\ result = "decision_framework"
    /\ st.iteration = 1
    /\ st.phase = "integrate"

(* ---------------------------------------------------------------- *)
(* detect_conflicts: order of the entries                            *)
(* ---------------------------------------------------------------- *)
\* where x stands first in seq
Position(seq, x) ==
    CHOOSE i \in DOMAIN seq : seq[i] = x /\ \A j \in 1..(i - 1) : seq[j] # x

\* the first pull request of prs that lists path
FirstPr(prs, path) ==
    CHOOSE i \in Listing(prs, path) : \A j \in Listing(prs, path) : i <= j

\* path p is met before path q when the pull requests are read in the order
\* of prs and the files of each in the order they are listed
MetBefore(prs, p, q) ==
    LET i == FirstPr(prs, p)
        j == FirstPr(prs, q)
    IN  \/ i < j
        \/ i = j /\ Position(prs[i].files, p) < Position(prs[i].files, q)

\* the pull request of prs that has number n
PrWithNumber(prs, n) == CHOOSE i \in DOMAIN prs : prs[i].number = n

\* C37: the entries of detect_conflicts stand in the order in which their
\* paths are first met, reading the pull requests in input order and the files
\* of each in listed order; the PR numbers of an entry stand in the order in
\* which the pull requests were read.
C37_ConflictOrder ==
    call.fn = "detect_conflicts" =>
        /\ \A a, b \in DOMAIN call.output :
              a < b => MetBefore(call.input, call.output[a].file,
                                 call.output[b].file)
        /\ \A e \in DOMAIN call.output :
              \A a, b \in DOMAIN call.output[e].prs :
                 a < b => PrWithNumber(call.input, call.output[e].prs[a])
                            < PrWithNumber(call.input, call.output[e].prs[b])

\* two conflicts, reported neither in the order of the path names nor with
\* ascending PR numbers
C37_Witness ==
    /\ call.fn = "detect_conflicts"
    /\ Len(call.output) = 2
    /\ call.output[1].file = "b.py"
    /\ call.output[2].file = "a.md"
    /\ call.output[1].prs[1] > call.output[1].prs[2]

(* ---------------------------------------------------------------- *)
(* state.py: suggest_next_step                                       *)
(* ---------------------------------------------------------------- *)
\* suggest_next_step is applied to states of at most MaxStateAgents agents
MaxStateAgents == 2

\* variant: only the agents at work count as not complete
Incomplete_active(agents) ==
    SelectSeq(agents, LAMBDA a : a.status = "in_progress")

\* [a for a in agents if a.status != "complete"]
Incomplete(agents) == SelectSeq(agents, LAMBDA a : a.status # "complete")

\* the answer is the sentence, and the number printed in it if there is one;
\* '"complete" in state.status' is asked of the statuses of InitStep, of which
\* "complete" alone holds that text
suggest_next_step(state) ==
    LET phase == state.phase IN
    IF phase = "idle" \/ state.status = "not_started"
    THEN <<"run_review">>
    ELSE IF phase = "review" /\ state.review_complete
    THEN <<"run_launch">>
    ELSE IF phase = "review"
    THEN <<"review_prompts_then_run_launch">>
    ELSE IF phase = "launch"
    THEN LET incomplete == Incomplete(state.agents)
         IN  IF incomplete # <<>>
             THEN <<"run_checkin", Len(incomplete)>>
             ELSE <<"run_integrate">>
    ELSE IF phase = "integrate"
    THEN <<"run_decide">>
    ELSE IF phase = "decide"
    THEN <<"deploy_or_iterate">>
    ELSE IF state.status = "complete"
    THEN <<"workflow_complete">>
    ELSE <<"continue", phase, state.status>>

\* phase and status are str fields: the five phases and the four statuses
\* the handlers write, and a phase and two statuses that none writes; each
\* agent has one of the statuses of AgentInfo
InitStep ==
    /\ NoWorkflow
    /\ \E phase \in {"idle", "review", "launch", "integrate", "decide",
                      "checkin"},
          status \in {"not_started", "reviewing", "launching", "integrating",
                      "deployed", "complete"},
          review_complete \in BOOLEAN, mode \in {"parallel", "sequential"},
          n \in 0..MaxStateAgents :
          \E s \in [1..n -> {"not_started", "in_progress", "complete",
                              "blocked"}] :
             call = NotCalled(
                 [Empty(0) EXCEPT
                     !.phase = phase,
                     !.status = status,
                     !.review_complete = review_complete,
                     !.mode = mode,
                     !.agents = [i \in 1..n |->
                                   [AgentInfo(i, "Docs", "docs")
                                       EXCEPT !.status = s[i]]]])

CallSuggestNextStep ==
    /\ call.fn = "none"
    /\ call' = [fn |-> "suggest_next_step", input |-> call.input,
                output |-> suggest_next_step(call.input)]
    /\ UNCHANGED workflow

SpecStep == InitStep /\ [][CallSuggestNextStep]_vars

\* the agents of the state that are not complete
Working(state) ==
    {i \in DOMAIN state.agents : state.agents[i].status # "complete"}

\* C38: the suggested step is given by the state, row by row: "run review"
\* when phase is idle or status is not_started; else for phase review "run
\* launch", worded by review_complete; for phase launch "run checkin" exactly
\* when an agent is not complete and "run integrate" otherwise, also without
\* agents; for phase integrate "run decide"; for phase decide "deploy or
\* iterate".
C38_NextStepTable ==
    call.fn = "suggest_next_step" =>
        LET state == call.input
            step == call.output
        IN  IF state.phase = "idle" \/ state.status = "not_started"
            THEN step = <<"run_review">>
            ELSE /\ (state.phase = "review") =>
                       /\ step[1] \in {"run_launch",
                                        "review_prompts_then_run_launch"}
                       /\ Len(step) = 1
                       /\ step[1] = "run_launch" <=> state.review_complete
                 /\ (state.phase = "launch") =>
                       /\ step[1] \in {"run_checkin", "run_integrate"}
                       /\ step[1] = "run_checkin" <=> Working(state) # {}
                       /\ (step[1] = "run_checkin") =>
                             (step = <<"run_checkin",
                                       Cardinality(Working(state))>>)
                       /\ (step[1] = "run_integrate") => (Len(step) = 1)
                 /\ (state.phase = "integrate") => (step = <<"run_decide">>)
                 /\ (state.phase = "decide") => (step = <<"deploy_or_iterate">>)

\* a launched workflow with one agent complete and one blocked: check in
C38_Witness ==
    /\ call.fn = "suggest_next_step"
    /\ call.input.phase = "launch"
    /\ call.input.status = "launching"
    /\ Len(call.input.agents) = 2
    /\ call.input.agents[1].status = "complete"
    /\ call.input.agents[2].status = "blocked"
    /\ call.output = <<"run_checkin", 1>>

(* ---------------------------------------------------------------- *)
(* handle_checkin: the dashboard of pasted reports                   *)
(* ---------------------------------------------------------------- *)
\* the pasted text holds at most MaxReports "## Agent N Completion Report"
\* headers
MaxReports == 2

\* the words and signs the status is searched for; "<check>", "<warning>"
\* and "<cross>" stand for the signs U+2705, U+26A0 U+FE0F and U+274C
Marks ==
    [complete |-> {<<"C", "o", "m", "p", "l", "e", "t", "e">>, <<"<check>">>},
     partial |-> {<<"P", "a", "r", "t", "i", "a", "l">>, <<"<warning>">>},
     blocked |-> {<<"B", "l", "o", "c", "k", "e", "d">>, <<"<cross>">>}]

\* the block of a report has no "**Status:**" line
NoStatusLine == <<"<none>">>

\* a report: the digits of its header, and what follows "**Status:**" on its
\* line if the block has one
AgentReports ==
    [header : {<<"1">>, <<"0", "2">>},
     status : {NoStatusLine} \cup
              {<<"<check>", " ", "C", "o", "m", "p", "l", "e", "t", "e">>,
              <<"C", "o", "m", "p", "l", "e", "t", "e", "d", " ">>,
              <<"c", "o", "m", "p", "l", "e", "t", "e">>,
              <<"<warning>", " ", "P", "a", "r", "t", "i", "a", "l">>,
              <<"P", "a", "r", "t", "i", "a", "l">>,
              <<"B", "l", "o", "c", "k", "e", "d">>,
              <<"<cross>">>,
              <<"C", "o", "m", "p", "l", "e", "t", "e", ",", " ", "B", "l", "o", "c", "k", "e", "d">>,
              <<"P", "a", "r", "t", "i", "a", "l", " ", "<cross>">>,
              <<"I", "n", " ", "p", "r", "o", "g", "r", "e", "s", "s">>}]

\* s.strip(), the only white space in the texts being the blank
RECURSIVE strip(_)
strip(s) ==
    IF s = <<>> THEN s
    ELSE IF Head(s) = " " THEN strip(Tail(s))
    ELSE IF s[Len(s)] = " " THEN strip(SubSeq(s, 1, Len(s) - 1))
    ELSE s

\* "sub in status" for one of the marks
HasMark(status, marks) == \E m \in marks : Contains(status, m)

\* variant: three separate tests in place of if / elif / elif
Categorize_each(tally, agent_num_, status) ==
    [complete |-> IF HasMark(status, Marks.complete)
                  THEN Append(tally.complete, agent_num_) ELSE tally.complete,
     partial |-> IF HasMark(status, Marks.partial)
                 THEN Append(tally.partial, agent_num_) ELSE tally.partial,
     blocked |-> IF HasMark(status, Marks.blocked)
                 THEN Append(tally.blocked, agent_num_) ELSE tally.blocked]

\* the lists hold the agent number of each report, which stands for the
\* tuple (agent_num, branch, pr)
Categorize(tally, agent_num_, status) ==
    IF HasMark(status, Marks.complete)
    THEN [tally EXCEPT !.complete = Append(@, agent_num_)]
    ELSE IF HasMark(status, Marks.partial)
    THEN [tally EXCEPT !.partial = Append(@, agent_num_)]
    ELSE IF HasMark(status, Marks.blocked)
    THEN [tally EXCEPT !.blocked = Append(@, agent_num_)]
    ELSE tally

\* "for i, header in enumerate(agent_headers)", with
\* status = status_match.group(1).strip() if status_match else "Unknown"
RECURSIVE ParseReports(_)
ParseReports(reports) ==
    IF reports = <<>>
    THEN [complete |-> <<>>, partial |-> <<>>, blocked |-> <<>>]
    ELSE LET report == reports[Len(reports)]
             status == IF report.status = NoStatusLine
                       THEN <<"U", "n", "k", "n", "o", "w", "n">>
                       ELSE strip(report.status)
         IN  Categorize(ParseReports(SubSeq(reports, 1, Len(reports) - 1)),
                        int(report.header), status)

\* the three lists, their total and the heading under "Next steps"
report_dashboard(reports) ==
    LET tally == ParseReports(reports)
        total == Len(tally.complete) + Len(tally.partial) + Len(tally.blocked)
    IN  [complete |-> tally.complete, partial |-> tally.partial,
         blocked |-> tally.blocked, total |-> total,
         next |-> IF tally.blocked # <<>> THEN "action_required"
                  ELSE IF tally.partial # <<>> THEN "waiting"
                  ELSE IF tally.complete # <<>> /\ Len(tally.complete) = total
                  THEN "ready_for_integration"
                  ELSE "none"]

InitReports ==
    /\ NoWorkflow
    /\ \E n \in 0..MaxReports :
          \E reports \in [1..n -> AgentReports] : call = NotCalled(reports)

CallReportDashboard ==
    /\ call.fn = "none"
    /\ call' = [fn |-> "report_dashboard", input |-> call.input,
                output |-> report_dashboard(call.input)]
    /\ UNCHANGED workflow

SpecReports == InitReports /\ [][CallReportDashboard]_vars

\* the status has one of the marks of a category
Marked(status, word, sign) == Contains(status, word) \/ Contains(status, sign)

CompleteWord == <<"C", "o", "m", "p", "l", "e", "t", "e">>
PartialWord == <<"P", "a", "r", "t", "i", "a", "l">>
BlockedWord == <<"B", "l", "o", "c", "k", "e", "d">>

\* the category a report belongs to: the first one, of complete, partial and
\* blocked, whose mark its status has; "none" without a status line or mark
ReportCategory(report) ==
    IF report.status = NoStatusLine THEN "none"
    ELSE IF Marked(report.status, CompleteWord, <<"<check>">>) THEN "complete"
    ELSE IF Marked(report.status, PartialWord, <<"<warning>">>) THEN "partial"
    ELSE IF Marked(report.status, BlockedWord, <<"<cross>">>) THEN "blocked"
    ELSE "none"

\* how many reports of the text belong to category c
ReportsOf(reports, c) ==
    Cardinality({i \in DOMAIN reports : ReportCategory(reports[i]) = c})

\* C39: each report is counted in the first of complete, partial, blocked
\* that its status matches and in no other; a report without status line or
\* with an unrecognized status is counted in none and the reports after it are
\* still counted; total is the sum of the three tallies; "ready for
\* integration" is announced only when blocked and partial are empty and
\* complete is not.
C39_ReportTallies ==
    call.fn = "report_dashboard" =>
        LET out == call.output
        IN  /\ Len(out.complete) = ReportsOf(call.input, "complete")
            /\ Len(out.partial) = ReportsOf(call.input, "partial")
            /\ Len(out.blocked) = ReportsOf(call.input, "blocked")
            /\ Len(out.complete) + Len(out.partial) + Len(out.blocked)
                  <= Len(call.input)
            /\ out.total
                  = Len(out.complete) + Len(out.partial) + Len(out.blocked)
            /\ (out.next = "ready_for_integration") =>
                  (out.blocked = <<>> /\ out.partial = <<>> /\ out.complete # <<>>)

\* a report without status line, then one whose status reads both Complete
\* and Blocked: the second is counted once, as complete
C39_Witness ==
    /\ call.fn = "report_dashboard"
    /\ Len(call.input) = 2
    /\ call.input[1].status = NoStatusLine
    /\ Contains(call.input[2].status, CompleteWord)
    /\ Contains(call.input[2].status, BlockedWord)
    /\ call.output.complete = <<2>>
    /\ call.output.total = 1
    /\ call.output.next = "ready_for_integration"

=========================================================================
